---- MODULE Spec2Model ----
(***************************************************************************)
(* State-machine model of am7p_bridge.py (AirMasterBridge): the UDP-to-MQTT *)
(* bridge loop of main(), its registry of known device names, the periodic  *)
(* liveness sweep and the shutdown sequence of the finally block.           *)
(*                                                                          *)
(* Time.  time.time() returns a float; the model counts time in ticks of    *)
(* 1/TicksPerSec second.  The only blocking call is sock.recvfrom, bounded  *)
(* by the socket timeout of 1.0 s, so the real clock advances only there.   *)
(* `clock` is the real time, `now` is the loop's sample of it (line 180).   *)
(***************************************************************************)
EXTENDS Integers, Sequences, FiniteSets

\* ------------------------------------------------------------------ bounds
MaxClock == 7          \* horizon of the real clock, in ticks
MaxEvalNow == 12       \* largest clock reading fed to the liveness evaluation
MaxEvalTimeout == 2    \* largest online timeout fed to the liveness evaluation

\* ------------------------------------------------------- program constants
TicksPerSec == 2                       \* resolution of time.time() in the model
SOCK_TIMEOUT == 1 * TicksPerSec        \* s.settimeout(1.0)
HEADER_LEN == 23
NEVER_SEEN_AGE == 999999
DEFAULT_NAME == "am7p"
NoTs == 0                              \* last_packet_ts.get(name, 0.0)
None == [none |-> TRUE]                \* Python's None, as parse_packet returns it
NoName == "-"                          \* `name` before it is bound
NoAddr == "0.0.0.0"                    \* `addr` before it is bound

\* ------------------------------------------------------------ configuration
\* opts["addr_to_name"]: one mapped address; the other two are absent from it.
Addrs == {"10.0.0.1", "10.0.0.2", "10.0.0.3"}
addr_to_name == [ip \in {"10.0.0.1"} |-> "bedroom"]
Names == {"bedroom", DEFAULT_NAME}
OnlineTimeoutChoices == {1}
MetaEveryChoices == {1}

\* addr_to_name.get(ip, ip): an unmapped address is its own name
get_name_by_ip_or_ip(ip) ==
  IF ip \in DOMAIN addr_to_name THEN addr_to_name[ip] ELSE ip
\* get_name_by_ip: addr_to_name.get(ip, "am7p")
get_name_by_ip(ip) ==
  IF ip \in DOMAIN addr_to_name THEN addr_to_name[ip] ELSE DEFAULT_NAME

\* ---------------------------------------------------------------- datagrams
Bytes(n, b) == [i \in 1..n |-> b]
\* Scenario A: 10, 20, 150, 250, 800, 3800, 6000 as big-endian 16-bit words.
PacketA == Bytes(HEADER_LEN, 0) \o <<0, 10, 0, 20, 0, 150, 0, 250, 3, 32, 14, 216, 23, 112>>
\* The same payload behind a different header and with trailing bytes.
PacketLong == Bytes(HEADER_LEN, 255) \o SubSeq(PacketA, HEADER_LEN + 1, Len(PacketA)) \o <<7, 7, 7>>
Short10 == Bytes(10, 1)
Short36 == SubSeq(PacketA, 1, Len(PacketA) - 1)
Datagrams == {PacketA, PacketLong, Short10, Short36}

WordLittleEndian(data, i) == data[HEADER_LEN + 2 * i + 1] + data[HEADER_LEN + 2 * i + 2] * 256
\* struct.unpack_from(">HHHHHHH", data[23:]): word i (from 0) of the payload.
Word(data, i) == data[HEADER_LEN + 2 * i + 1] * 256 + data[HEADER_LEN + 2 * i + 2]

\* x / 100 in Python is a true division: the value is kept as the exact
\* fraction <<numerator, denominator>>.
Div100(x) == <<x, 100>>

\* the minimum length guard of parse_packet: 23 + 14
MinLen == HEADER_LEN + 14

\* parse_packet
parse_packet(data) ==
  IF Len(data) < MinLen
    THEN None
    ELSE [pm25 |-> Word(data, 0),
          pm10 |-> Word(data, 1),
          hcho |-> Div100(Word(data, 2)),
          tvoc |-> Div100(Word(data, 3)),
          co2 |-> Word(data, 4),
          temperature |-> Div100(Word(data, 5) - 3500),
          humidity |-> Div100(Word(data, 6))]

\* ------------------------------------------------------- liveness evaluation
\* int(x) truncates toward zero; a and b are tick counts, b > 0.
IntTrunc(a, b) == IF a >= 0 THEN a \div b ELSE -((-a) \div b)

\* age = int(now - ts) if ts else 999999
Age(ts, nw) == IF ts # NoTs THEN IntTrunc(nw - ts, TicksPerSec) ELSE NEVER_SEEN_AGE

IsOnlineMutant(ts, age, timeout) == (ts # NoTs) /\ (age < timeout)
\* online = (ts != 0.0) and (age <= online_timeout_s)
IsOnline(ts, age, timeout) == (ts # NoTs) /\ (age <= timeout)

\* publish_meta: the payload of the online topic, "ON" if online else "OFF"
OnlinePayload(online) == IF online THEN "ON" ELSE "OFF"

\* -------------------------------------------------------------------- state
VARIABLES
  pc,                   \* position of main() (see the actions below)
  clock,                \* the real time, in ticks
  now,                  \* main's local `now`
  next_meta_ts,         \* main's local `next_meta_ts`
  online_timeout_s,     \* opts online_timeout_s (seconds)
  meta_publish_every_s, \* opts meta_publish_every_s (seconds)
  known_names,          \* main's set `known_names`
  last_packet_ts,       \* main's dict `last_packet_ts` (NoTs: key absent)
  data,                 \* the datagram returned by recvfrom
  addr,                 \* its source address, addr[0]
  name,                 \* get_name_by_ip of its source address
  payload,              \* parse_packet(data)
  todo,                 \* names the running `for name in list(known_names)` has left
  cause,                \* "none", or which except clause of main ran
  outcome,              \* "none" while main runs, then how main ended
  sockOpen,             \* the UDP socket is not closed
  busRunning,           \* the MQTT network loop is not stopped
  releaseLog,           \* the release calls of the finally block, in call order
  discCount,            \* per name: completed publish_discovery calls
  statePubs,            \* names with at least one publish_state
  attributed,           \* names of the packets that passed `payload is not None`
  arrival,              \* per name: real time its last valid datagram arrived
  sweepEnd,             \* real time the last sweep that published ended (NoTs: none yet)
  handledFrom,          \* source addresses of the packets that reached line 195
  retAge,               \* per name: retained payload of the last_packet_s topic
  retOnline,            \* per name: retained payload of the online topic
  offPubs               \* per name: publish_meta(..., False) calls of the finally block

vars == <<pc, clock, now, next_meta_ts, online_timeout_s, meta_publish_every_s,
          known_names, last_packet_ts, data, addr, name, payload, todo, cause, outcome,
          sockOpen, busRunning, releaseLog, discCount, statePubs, attributed, arrival,
          sweepEnd, handledFrom,
          retAge, retOnline, offPubs>>

config == <<online_timeout_s, meta_publish_every_s>>
packet == <<data, addr, name, payload>>
registry == <<known_names, last_packet_ts>>
resources == <<sockOpen, busRunning, releaseLog>>
published == <<discCount, statePubs, retAge, retOnline, offPubs>>

NoAge == 0 - NEVER_SEEN_AGE - 1   \* a retained topic that holds no message
NoData == <<>>

\* positions inside `try: while True:` (lines 178-208) and inside the inner try
RunningPcs == {"top", "recv", "check", "disc", "state", "ts", "meta", "sweep"}
InnerTryPcs == {"recv", "check", "disc", "state", "ts"}
ShutdownPcs == {"fin", "finpub", "close", "stop", "done"}

\* ------------------------------------------------------------ construction
\* main() up to line 176: both connections are up, the registry is empty and the
\* first sweep is due meta_publish_every_s after the start.
StartClock == 1

Init ==
  /\ pc = "top"
  /\ clock = StartClock
  /\ now = StartClock
  /\ online_timeout_s \in OnlineTimeoutChoices
  /\ meta_publish_every_s \in MetaEveryChoices
  /\ next_meta_ts = StartClock + meta_publish_every_s * TicksPerSec
  /\ known_names = {}
  /\ last_packet_ts = [n \in Names |-> NoTs]
  /\ data = NoData
  /\ addr = NoAddr
  /\ name = NoName
  /\ payload = None
  /\ todo = {}
  /\ cause = "none"
  /\ outcome = "none"
  /\ sockOpen = TRUE
  /\ busRunning = TRUE
  /\ releaseLog = <<>>
  /\ discCount = [n \in Names |-> 0]
  /\ statePubs = {}
  /\ attributed = {}
  /\ arrival = [n \in Names |-> NoTs]
  /\ sweepEnd = NoTs
  /\ handledFrom = {}
  /\ retAge = [n \in Names |-> NoAge]
  /\ retOnline = [n \in Names |-> "none"]
  /\ offPubs = [n \in Names |-> 0]

\* ------------------------------------------------------- exception handling
\* `except socket.timeout: pass` of the inner try (lines 197-198)
InnerCatches(exc) == exc = "socket.timeout"

\* `except KeyboardInterrupt` / `except Exception: ... raise` (lines 210-214)
OuterCause(exc) == IF exc = "KeyboardInterrupt" THEN "interrupt" ELSE "fault"

ExitOutcomeMutant(c) == "normal"
\* how main() ends once the finally block is through: the `raise` of line 214
\* re-raises a fault, an interrupt was handled and main returns.
ExitOutcome(c) == IF c = "fault" THEN "abnormal" ELSE "normal"

\* `data`, `name` and `payload` are dead once a datagram is dealt with: every
\* read of them follows a new assignment by lines 184-188 (or by a for loop).
ClearPacket == data' = NoData /\ addr' = NoAddr /\ name' = NoName /\ payload' = None

\* exception `exc` raised at the current position; `inner`: inside lines 184-195
Throw(exc, inner) ==
  /\ todo' = {}
  /\ ClearPacket
  /\ IF inner /\ InnerCatches(exc)
       THEN pc' = "meta" /\ cause' = cause
       ELSE pc' = "fin" /\ cause' = OuterCause(exc)

\* ------------------------------------------------------------------ the loop
\* line 180: now = time.time()
Top ==
  /\ pc = "top"
  /\ now' = clock
  /\ pc' = "recv"
  /\ UNCHANGED <<clock, next_meta_ts, config, registry, packet, todo, cause, outcome,
                 resources, published, attributed, arrival, sweepEnd, handledFrom>>

\* lines 184-188: recvfrom returns a datagram `el` ticks after the call, before
\* the timeout; the name is resolved and the datagram parsed.  The datagram
\* comes from one of the addresses `ips` and is one of `dgrams`.
RecvFrom(ips, dgrams) ==
  /\ pc = "recv"
  /\ \E ip \in ips, d \in dgrams, el \in 0..(SOCK_TIMEOUT - 1) :
       /\ clock + el <= MaxClock
       /\ clock' = clock + el
       /\ data' = d
       /\ addr' = ip
       /\ name' = get_name_by_ip(ip)
       /\ payload' = parse_packet(d)
       /\ arrival' = IF parse_packet(d) # None
                       THEN [arrival EXCEPT ![get_name_by_ip(ip)] = clock + el]
                       ELSE arrival
  /\ pc' = "check"
  /\ UNCHANGED <<now, next_meta_ts, config, registry, todo, cause, outcome,
                 resources, published, attributed, sweepEnd, handledFrom>>

\* two devices, one at the mapped address and one at an unmapped address,
\* each sending any datagram
RecvData == RecvFrom({"10.0.0.1", "10.0.0.2"}, Datagrams)

\* two devices, both at addresses absent from addr_to_name
RecvUnmapped == RecvFrom(Addrs \ DOMAIN addr_to_name, {PacketA, Short10})

\* the network of the fairness specification: one device, at the mapped address
RecvOneDevice == RecvFrom({"10.0.0.1"}, {PacketA, Short10})

\* s.settimeout(None): recvfrom never raises socket.timeout
RecvNeverTimesOut == FALSE /\ UNCHANGED vars
\* line 184: recvfrom raises socket.timeout after the socket timeout
RecvTimeout ==
  /\ pc = "recv"
  /\ clock + SOCK_TIMEOUT <= MaxClock
  /\ clock' = clock + SOCK_TIMEOUT
  /\ Throw("socket.timeout", TRUE)
  /\ UNCHANGED <<now, next_meta_ts, config, registry, outcome,
                 resources, published, attributed, arrival, sweepEnd, handledFrom>>

\* line 184: recvfrom raises another exception (an OSError)
RecvFault ==
  /\ pc = "recv"
  /\ Throw("Exception", TRUE)
  /\ UNCHANGED <<clock, now, next_meta_ts, config, registry, outcome,
                 resources, published, attributed, arrival, sweepEnd, handledFrom>>

\* CheckPayload with one of its decisions changed (used to mutate it):
\*   addOnReject: the name is registered before the payload is looked at
\*   discIfNew / discIfKnown: whether publish_discovery follows for a new / known name
CheckPayloadWith(addOnReject, discIfNew, discIfKnown) ==
  /\ pc = "check"
  /\ IF payload = None
       THEN /\ pc' = "meta"
            /\ ClearPacket
            /\ known_names' = IF addOnReject THEN known_names \cup {name} ELSE known_names
            /\ UNCHANGED attributed
       ELSE /\ attributed' = attributed \cup {name}
            /\ known_names' = known_names \cup {name}
            /\ pc' = IF (name \notin known_names /\ discIfNew) \/ (name \in known_names /\ discIfKnown)
                       THEN "disc" ELSE "state"
            /\ UNCHANGED packet
  /\ UNCHANGED <<clock, now, next_meta_ts, config, last_packet_ts, todo, cause, outcome,
                 resources, published, arrival, sweepEnd, handledFrom>>

CheckPayloadSkipsDiscovery == CheckPayloadWith(FALSE, FALSE, FALSE)
CheckPayloadAlwaysDiscovers == CheckPayloadWith(FALSE, TRUE, TRUE)
CheckPayloadRegistersFirst == CheckPayloadWith(TRUE, TRUE, FALSE)

\* lines 189-191: a rejected datagram is dropped; a valid one registers its name
CheckPayload ==
  /\ pc = "check"
  /\ IF payload = None
       THEN /\ pc' = "meta"
            /\ ClearPacket
            /\ UNCHANGED <<known_names, attributed>>
       ELSE /\ attributed' = attributed \cup {name}
            /\ IF name \notin known_names
                 THEN known_names' = known_names \cup {name} /\ pc' = "disc"
                 ELSE UNCHANGED known_names /\ pc' = "state"
            /\ UNCHANGED packet
  /\ UNCHANGED <<clock, now, next_meta_ts, config, last_packet_ts, todo, cause, outcome,
                 resources, published, arrival, sweepEnd, handledFrom>>

\* line 192: publish_discovery(client, name) runs to its end
PublishDiscovery ==
  /\ pc = "disc"
  /\ discCount' = [discCount EXCEPT ![name] = @ + 1]
  /\ pc' = "state"
  /\ UNCHANGED <<clock, now, next_meta_ts, config, registry, packet, todo, cause, outcome,
                 resources, statePubs, retAge, retOnline, offPubs, attributed, arrival, sweepEnd, handledFrom>>

\* line 194: publish_state(client, name, payload)
PublishState ==
  /\ pc = "state"
  /\ statePubs' = statePubs \cup {name}
  /\ pc' = "ts"
  /\ UNCHANGED <<clock, now, next_meta_ts, config, registry, packet, todo, cause, outcome,
                 resources, discCount, retAge, retOnline, offPubs, attributed, arrival, sweepEnd, handledFrom>>

\* lines 192, 194: a client.publish call of publish_discovery or publish_state
\* raises (a config topic published before it is not a completed discovery)
PublishFault ==
  /\ pc \in {"disc", "state"}
  /\ Throw("Exception", TRUE)
  /\ UNCHANGED <<clock, now, next_meta_ts, config, registry, outcome,
                 resources, published, attributed, arrival, sweepEnd, handledFrom>>

\* line 195 left out: the timestamp is never recorded
RecordTsSkipped ==
  /\ pc = "ts"
  /\ pc' = "meta"
  /\ ClearPacket
  /\ UNCHANGED <<clock, now, next_meta_ts, config, registry, todo, cause, outcome,
                 resources, published, attributed, arrival, sweepEnd, handledFrom>>
\* line 195 refreshing the timestamp of every name
RecordTsTouchesAll ==
  /\ pc = "ts"
  /\ last_packet_ts' = [n \in Names |-> now]
  /\ handledFrom' = handledFrom \cup {addr}
  /\ pc' = "meta"
  /\ ClearPacket
  /\ UNCHANGED <<clock, now, next_meta_ts, config, known_names, todo, cause, outcome,
                 resources, published, attributed, arrival, sweepEnd>>
\* line 195: last_packet_ts[name] = now
RecordTs ==
  /\ pc = "ts"
  /\ last_packet_ts' = [last_packet_ts EXCEPT ![name] = now]
  /\ handledFrom' = handledFrom \cup {addr}
  /\ pc' = "meta"
  /\ ClearPacket
  /\ UNCHANGED <<clock, now, next_meta_ts, config, known_names, todo, cause, outcome,
                 resources, published, attributed, arrival, sweepEnd>>

\* lines 201-204: the sweep is due; reschedule and snapshot the names
MetaCheck ==
  /\ pc = "meta"
  /\ IF now >= next_meta_ts
       THEN /\ next_meta_ts' = now + meta_publish_every_s * TicksPerSec
            /\ todo' = known_names
            /\ pc' = IF known_names = {} THEN "top" ELSE "sweep"
       ELSE /\ pc' = "top"
            /\ UNCHANGED <<next_meta_ts, todo>>
  /\ UNCHANGED <<clock, now, config, registry, packet, cause, outcome,
                 resources, published, attributed, arrival, sweepEnd, handledFrom>>

\* a sweep that returns after the first name it publishes
SweepStopsEarly(n) ==
  /\ pc = "sweep"
  /\ n \in todo
  /\ LET ts == last_packet_ts[n]
         age == Age(ts, now)
         online == IsOnline(ts, age, online_timeout_s)
     IN /\ retAge' = [retAge EXCEPT ![n] = age]
        /\ retOnline' = [retOnline EXCEPT ![n] = OnlinePayload(online)]
  /\ todo' = {}
  /\ pc' = "top"
  /\ sweepEnd' = clock
  /\ UNCHANGED <<clock, now, next_meta_ts, config, registry, packet, cause, outcome,
                 resources, discCount, statePubs, offPubs, attributed, arrival, handledFrom>>
\* lines 205-208: one iteration of the sweep, for the name n
Sweep(n) ==
  /\ pc = "sweep"
  /\ n \in todo
  /\ LET ts == last_packet_ts[n]
         age == Age(ts, now)
         online == IsOnline(ts, age, online_timeout_s)
     IN /\ retAge' = [retAge EXCEPT ![n] = age]
        /\ retOnline' = [retOnline EXCEPT ![n] = OnlinePayload(online)]
  /\ todo' = todo \ {n}
  /\ pc' = IF todo \ {n} = {} THEN "top" ELSE "sweep"
  /\ sweepEnd' = IF todo \ {n} = {} THEN clock ELSE sweepEnd
  /\ UNCHANGED <<clock, now, next_meta_ts, config, registry, packet, cause, outcome,
                 resources, discCount, statePubs, offPubs, attributed, arrival, handledFrom>>

\* line 208: a client.publish call of publish_meta raises, before the age is
\* published or between the age and the online flag
SweepFault(n) ==
  /\ pc = "sweep"
  /\ n \in todo
  /\ \E agePublished \in BOOLEAN :
       retAge' = IF agePublished
                   THEN [retAge EXCEPT ![n] = Age(last_packet_ts[n], now)]
                   ELSE retAge
  /\ Throw("Exception", FALSE)
  /\ UNCHANGED <<clock, now, next_meta_ts, config, registry, outcome,
                 resources, discCount, statePubs, retOnline, offPubs, attributed, arrival, sweepEnd, handledFrom>>

\* KeyboardInterrupt delivered while the loop runs (caught at line 210)
Interrupt ==
  /\ pc \in RunningPcs
  /\ Throw("KeyboardInterrupt", pc \in InnerTryPcs)
  /\ UNCHANGED <<clock, now, next_meta_ts, config, registry, outcome,
                 resources, published, attributed, arrival, sweepEnd, handledFrom>>

\* ------------------------------------------------------------------ shutdown
\* lines 218-219: now = time.time(); the names are snapshotted
FinStart ==
  /\ pc = "fin"
  /\ now' = clock
  /\ todo' = known_names
  /\ pc' = IF known_names = {} THEN "close" ELSE "finpub"
  /\ UNCHANGED <<clock, next_meta_ts, config, registry, packet, cause, outcome,
                 resources, published, attributed, arrival, sweepEnd, handledFrom>>

\* lines 220-222: publish_meta(client, name, age, False) for the name n
FinPublish(n) ==
  /\ pc = "finpub"
  /\ n \in todo
  /\ retAge' = [retAge EXCEPT ![n] = Age(last_packet_ts[n], now)]
  /\ retOnline' = [retOnline EXCEPT ![n] = OnlinePayload(FALSE)]
  /\ offPubs' = [offPubs EXCEPT ![n] = @ + 1]
  /\ todo' = todo \ {n}
  /\ pc' = IF todo \ {n} = {} THEN "close" ELSE "finpub"
  /\ UNCHANGED <<clock, now, next_meta_ts, config, registry, packet, cause, outcome,
                 resources, discCount, statePubs, attributed, arrival, sweepEnd, handledFrom>>

\* lines 222-224: a client.publish call of that publish_meta raises; the
\* `except Exception: pass` around the whole loop ends the loop
FinPublishFault(n) ==
  /\ pc = "finpub"
  /\ n \in todo
  /\ \E agePublished \in BOOLEAN :
       retAge' = IF agePublished
                   THEN [retAge EXCEPT ![n] = Age(last_packet_ts[n], now)]
                   ELSE retAge
  /\ todo' = {}
  /\ pc' = "close"
  /\ UNCHANGED <<clock, now, next_meta_ts, config, registry, packet, cause, outcome,
                 resources, discCount, statePubs, retOnline, offPubs, attributed, arrival, sweepEnd, handledFrom>>

\* sock.close() whose failure leaves the finally block: loop_stop is not called
CloseSocketPropagates ==
  /\ pc = "close"
  /\ releaseLog' = Append(releaseLog, "sock.close")
  /\ \E ok \in BOOLEAN :
       /\ sockOpen' = ~ok
       /\ pc' = IF ok THEN "stop" ELSE "done"
       /\ outcome' = IF ok THEN outcome ELSE "abnormal"
  /\ UNCHANGED <<clock, now, next_meta_ts, config, registry, packet, todo, cause,
                 busRunning, published, attributed, arrival, sweepEnd, handledFrom>>
\* lines 226-229: sock.close(), a failure of it swallowed
CloseSocket ==
  /\ pc = "close"
  /\ releaseLog' = Append(releaseLog, "sock.close")
  /\ \E ok \in BOOLEAN : sockOpen' = ~ok
  /\ pc' = "stop"
  /\ UNCHANGED <<clock, now, next_meta_ts, config, registry, packet, todo, cause, outcome,
                 busRunning, published, attributed, arrival, sweepEnd, handledFrom>>

\* lines 231-234: client.loop_stop(), a failure of it swallowed; then main ends
StopBus ==
  /\ pc = "stop"
  /\ releaseLog' = Append(releaseLog, "client.loop_stop")
  /\ \E ok \in BOOLEAN : busRunning' = ~ok
  /\ pc' = "done"
  /\ outcome' = ExitOutcome(cause)
  /\ UNCHANGED <<clock, now, next_meta_ts, config, registry, packet, todo, cause,
                 sockOpen, published, attributed, arrival, sweepEnd, handledFrom>>

Next ==
  \/ Top
  \/ RecvData
  \/ RecvTimeout
  \/ RecvFault
  \/ CheckPayload
  \/ PublishDiscovery
  \/ PublishState
  \/ PublishFault
  \/ RecordTs
  \/ MetaCheck
  \/ \E n \in Names : Sweep(n)
  \/ \E n \in Names : SweepFault(n)
  \/ Interrupt
  \/ FinStart
  \/ \E n \in Names : FinPublish(n)
  \/ \E n \in Names : FinPublishFault(n)
  \/ CloseSocket
  \/ StopBus

Spec == Init /\ [][Next]_vars

\* the loop's own steps: main is one thread that runs on unless an exception
\* is raised, and recvfrom returns at the latest when the socket timeout expires
Progress ==
  \/ Top
  \/ RecvTimeout
  \/ CheckPayload
  \/ PublishDiscovery
  \/ PublishState
  \/ RecordTs
  \/ MetaCheck
  \/ \E n \in Names : Sweep(n)

\* the bridge with a single device on the network
NextFair ==
  \/ Top
  \/ RecvOneDevice
  \/ RecvTimeout
  \/ RecvFault
  \/ CheckPayload
  \/ PublishDiscovery
  \/ PublishState
  \/ PublishFault
  \/ RecordTs
  \/ MetaCheck
  \/ \E n \in Names : Sweep(n)
  \/ \E n \in Names : SweepFault(n)
  \/ Interrupt
  \/ FinStart
  \/ \E n \in Names : FinPublish(n)
  \/ \E n \in Names : FinPublishFault(n)
  \/ CloseSocket
  \/ StopBus

SpecFair == Init /\ [][NextFair]_vars /\ WF_vars(Progress)

\* ------------------------------------------ the liveness evaluation alone
\* Lines 205-207 applied again and again to one session while `now` grows:
\* the session's timestamp (absent, earlier or later than `now`) and the
\* timeout are drawn at the start.
InitEval ==
  /\ pc = "eval"
  /\ clock = StartClock
  /\ now = StartClock
  /\ online_timeout_s \in 0..MaxEvalTimeout
  /\ meta_publish_every_s = 1
  /\ next_meta_ts = StartClock
  /\ known_names = {DEFAULT_NAME}
  /\ \E ts \in 0..MaxEvalNow :
       last_packet_ts = [n \in Names |-> IF n = DEFAULT_NAME THEN ts ELSE NoTs]
  /\ data = NoData
  /\ addr = NoAddr
  /\ name = NoName
  /\ payload = None
  /\ todo = {}
  /\ cause = "none"
  /\ outcome = "none"
  /\ sockOpen = TRUE
  /\ busRunning = TRUE
  /\ releaseLog = <<>>
  /\ discCount = [n \in Names |-> IF n = DEFAULT_NAME THEN 1 ELSE 0]
  /\ statePubs = {}
  /\ attributed = {DEFAULT_NAME}
  /\ arrival = last_packet_ts
  /\ sweepEnd = NoTs
  /\ handledFrom = {}
  /\ retAge = [n \in Names |-> IF n = DEFAULT_NAME
                                 THEN Age(last_packet_ts[n], now) ELSE NoAge]
  /\ retOnline = [n \in Names |-> IF n = DEFAULT_NAME
                                    THEN OnlinePayload(IsOnline(last_packet_ts[n],
                                           Age(last_packet_ts[n], now), online_timeout_s))
                                    ELSE "none"]
  /\ offPubs = [n \in Names |-> 0]

\* lines 205-208 at a later reading nw of the clock
Evaluate ==
  /\ pc = "eval"
  /\ \E nw \in (now + 1)..MaxEvalNow :
       LET ts == last_packet_ts[DEFAULT_NAME]
           age == Age(ts, nw)
           online == IsOnline(ts, age, online_timeout_s)
       IN /\ now' = nw
          /\ clock' = nw
          /\ retAge' = [retAge EXCEPT ![DEFAULT_NAME] = age]
          /\ retOnline' = [retOnline EXCEPT ![DEFAULT_NAME] = OnlinePayload(online)]
  /\ UNCHANGED <<pc, next_meta_ts, config, registry, packet, todo, cause, outcome,
                 resources, discCount, statePubs, offPubs, attributed, arrival, sweepEnd, handledFrom>>

NextEval == Evaluate

SpecEval == InitEval /\ [][NextEval]_vars

\* the bridge with two devices at unmapped addresses
NextShared ==
  \/ Top
  \/ RecvUnmapped
  \/ RecvTimeout
  \/ RecvFault
  \/ CheckPayload
  \/ PublishDiscovery
  \/ PublishState
  \/ PublishFault
  \/ RecordTs
  \/ MetaCheck
  \/ \E n \in Names : Sweep(n)
  \/ \E n \in Names : SweepFault(n)
  \/ Interrupt
  \/ FinStart
  \/ \E n \in Names : FinPublish(n)
  \/ \E n \in Names : FinPublishFault(n)
  \/ CloseSocket
  \/ StopBus

SpecShared == Init /\ [][NextShared]_vars

\* ----------------------------------------------------- a stepping wall clock
\* time.time() is the wall clock: an adjustment of the system time (NTP step,
\* manual change) makes a later reading smaller than an earlier one.  The
\* clock is read at lines 180 and 218 only, so a step matters at those reads.
ClockStepsBack ==
  /\ pc \in {"top", "fin"}
  /\ clock > StartClock
  /\ clock' \in StartClock..(clock - 1)
  /\ UNCHANGED <<pc, now, next_meta_ts, config, registry, packet, todo, cause, outcome,
                 resources, published, attributed, arrival, sweepEnd, handledFrom>>

\* the bridge with a single device on the network and a wall clock that may
\* be set back
NextSkew ==
  \/ NextFair
  \/ ClockStepsBack

SpecSkew == Init /\ [][NextSkew]_vars

\* ------------------------------------------------------ parse_packet alone
\* The buffers handed to parse_packet: a 23-byte header, seven 16-bit words
\* written most significant byte first, and whatever follows them.
U16BE(w) == <<w \div 256, w % 256>>
RawWords ==
  {<<r0, r1, r2, r3, r4, r5, r6>> :
     r0 \in {10, 65535}, r1 \in {20, 256}, r2 \in {150, 1}, r3 \in {250, 65535},
     r4 \in {800, 0}, r5 \in {3800, 0}, r6 \in {6000, 10001}}
HeaderFills == {0, 255}
Trailers == {<<>>, <<7, 7, 7>>}
Buffer(h, raw, t) ==
  Bytes(HEADER_LEN, h) \o U16BE(raw[1]) \o U16BE(raw[2]) \o U16BE(raw[3]) \o U16BE(raw[4])
    \o U16BE(raw[5]) \o U16BE(raw[6]) \o U16BE(raw[7]) \o t

InitDecode ==
  /\ pc = "decode"
  /\ \E h \in HeaderFills, raw \in RawWords, t \in Trailers : data = Buffer(h, raw, t)
  /\ payload = None
  /\ addr = NoAddr
  /\ name = NoName
  /\ clock = StartClock
  /\ now = StartClock
  /\ online_timeout_s = 1
  /\ meta_publish_every_s = 1
  /\ next_meta_ts = StartClock
  /\ known_names = {}
  /\ last_packet_ts = [n \in Names |-> NoTs]
  /\ todo = {}
  /\ cause = "none"
  /\ outcome = "none"
  /\ sockOpen = TRUE
  /\ busRunning = TRUE
  /\ releaseLog = <<>>
  /\ discCount = [n \in Names |-> 0]
  /\ statePubs = {}
  /\ attributed = {}
  /\ arrival = [n \in Names |-> NoTs]
  /\ sweepEnd = NoTs
  /\ handledFrom = {}
  /\ retAge = [n \in Names |-> NoAge]
  /\ retOnline = [n \in Names |-> "none"]
  /\ offPubs = [n \in Names |-> 0]

\* line 188: payload = parse_packet(data)
Decode ==
  /\ pc = "decode"
  /\ payload' = parse_packet(data)
  /\ pc' = "decoded"
  /\ UNCHANGED <<clock, now, next_meta_ts, config, registry, data, addr, name, todo, cause, outcome,
                 resources, published, attributed, arrival, sweepEnd, handledFrom>>

NextDecode == Decode

SpecDecode == InitDecode /\ [][NextDecode]_vars

TypeOK ==
  /\ pc \in RunningPcs \cup ShutdownPcs \cup {"eval", "decode", "decoded"}
  /\ clock \in Nat \ {NoTs}
  /\ now \in Nat \ {NoTs}
  /\ known_names \subseteq Names
  /\ todo \subseteq known_names
  /\ cause \in {"none", "interrupt", "fault"}
  /\ outcome \in {"none", "normal", "abnormal"}

\* ------------------------------------------------------------------ claims
\* C1: every measurement publication on a name's state topic is preceded by a
\* discovery publication for that name: a name that has a state publication has
\* a completed discovery, and publish_state is never about to run for a name
\* that is still unannounced.
C1_DiscoveryBeforeState ==
  /\ \A n \in statePubs : discCount[n] >= 1
  /\ pc = "state" => discCount[name] >= 1

\* the first measurement of a name has just been published
C1_Witness == pc = "ts" /\ name = "bedroom" /\ "bedroom" \in statePubs

\* C2: discovery is published exactly once per name over the process lifetime:
\* never twice, only for a registered name, and once for every name whose
\* measurement was published, whatever the number of later packets.
C2_DiscoveryOnce ==
  \A n \in Names :
    /\ discCount[n] <= 1
    /\ discCount[n] = 1 => n \in known_names
    /\ n \in statePubs => discCount[n] = 1

\* a later valid packet of a published name is being handled, and both names
\* have had their own discovery
C2_Witness ==
  /\ pc = "state"
  /\ name \in statePubs
  /\ \A n \in Names : discCount[n] = 1

\* C3: once the offline loop of the shutdown is over, every known name has had
\* exactly one final publication with the online flag OFF, and the loop is over
\* before the socket and the bus connection are released.
C3_FinalOfflineOnce ==
  /\ pc \in {"close", "stop", "done"} =>
       \A n \in known_names : offPubs[n] = 1 /\ retOnline[n] = "OFF"
  /\ pc \in {"fin", "finpub", "close"} => sockOpen /\ busRunning

\* C4: after main ended because of a fault, no known name is left with a
\* retained online flag ON.
C4_NoStaleOnline ==
  (pc = "done" /\ cause = "fault") => \A n \in known_names : retOnline[n] # "ON"

\* C5: a sweep that publishes for a name whose last valid packet arrived at
\* least online_timeout_s + 1 seconds of real time ago publishes online = false
\* and an age of at least online_timeout_s + 1.
SweepPublishes(n) == pc = "sweep" /\ n \in todo /\ n \notin todo' /\ pc' \in {"sweep", "top"}

C5_OfflineAfterTimeout ==
  [][\A n \in Names :
       (SweepPublishes(n) /\ clock - arrival[n] >= (online_timeout_s + 1) * TicksPerSec)
         => (retOnline'[n] = "OFF" /\ retAge'[n] >= online_timeout_s + 1)]_vars

\* C6: while the loop runs, a receive attempt for whose timeout the horizon
\* leaves room returns, and a scheduled sweep time k that has passed is
\* followed by that sweep (which reschedules past k) unless the loop is left.
C6_SweepsKeepFiring ==
  /\ (pc = "recv" /\ clock + SOCK_TIMEOUT <= MaxClock) ~> (pc # "recv")
  /\ \A k \in StartClock..MaxClock :
       (pc \in RunningPcs /\ next_meta_ts = k /\ clock >= k
          /\ clock + 2 * SOCK_TIMEOUT <= MaxClock)
         ~> (next_meta_ts > k \/ pc \in ShutdownPcs)

\* sweeps went on through a silence long enough for one of them to find the
\* device offline
C6_Witness == pc \in RunningPcs /\ retOnline["bedroom"] = "OFF"

\* C7: a datagram shorter than 37 bytes is rejected without a fault and without
\* effect: its receipt and its handling leave the registry, the timestamps and
\* everything published unchanged, and the loop goes on to the sweep check.
C7_ShortDatagramNoEffect ==
  [][/\ (pc = "recv" /\ pc' = "check" /\ Len(data') < 37) =>
          (payload' = None /\ UNCHANGED <<registry, published, attributed>>)
     /\ (pc = "check" /\ Len(data) < 37 /\ cause' # "interrupt") =>
          (pc' = "meta" /\ cause' = "none" /\ outcome' = "none"
           /\ UNCHANGED <<registry, published, attributed>>)]_vars

\* a 36-byte datagram from the address of an already known name was rejected
C7_Witness ==
  /\ pc = "check"
  /\ Len(data) = 36
  /\ payload = None
  /\ name \in known_names
  /\ last_packet_ts[name] # NoTs

\* C8: a name is in the registry if and only if a valid packet has been
\* attributed to it, and no step removes a name from the registry.
C8_RegistryIffValidPacket ==
  /\ [](known_names = attributed)
  /\ [][known_names \subseteq known_names']_vars

\* both names are registered, one of them not the other's
C8_Witness == known_names = Names /\ attributed = Names /\ pc = "top"

\* C9: for a fixed timestamp, a later `now` never gives a smaller age; online
\* is true exactly when the timestamp is present and the age is at most the
\* timeout, so true at an age of exactly the timeout and false one second
\* later; and online, once false, stays false as `now` grows.
EvalTs == last_packet_ts[DEFAULT_NAME]
EvalAge == retAge[DEFAULT_NAME]
EvalOnline == retOnline[DEFAULT_NAME]

C9_EvaluateMonotonic ==
  /\ [](EvalOnline = "ON" <=> (EvalTs # NoTs /\ EvalAge <= online_timeout_s))
  /\ []((EvalTs # NoTs /\ now - EvalTs = online_timeout_s * TicksPerSec)
          => (EvalAge = online_timeout_s /\ EvalOnline = "ON"))
  /\ []((EvalTs # NoTs /\ now - EvalTs = (online_timeout_s + 1) * TicksPerSec)
          => (EvalAge = online_timeout_s + 1 /\ EvalOnline = "OFF"))
  /\ [][now' > now => EvalAge' >= EvalAge]_vars
  /\ [][EvalOnline = "OFF" => EvalOnline' = "OFF"]_vars

\* a later evaluation found the session one second past the timeout
C9_Witness ==
  /\ pc = "eval"
  /\ now > StartClock
  /\ last_packet_ts[DEFAULT_NAME] # NoTs
  /\ now - last_packet_ts[DEFAULT_NAME] = (online_timeout_s + 1) * TicksPerSec
  /\ retOnline[DEFAULT_NAME] = "OFF"

\* C10: main ends abnormally exactly after a fault and normally after an
\* interrupt, in both cases only at the end of the finally block; a receive
\* timeout or a rejected datagram never leaves the loop.
C10_OutcomeReflectsCause ==
  /\ [](pc = "done" => /\ cause \in {"fault", "interrupt"}
                       /\ cause = "fault" => outcome = "abnormal"
                       /\ cause = "interrupt" => outcome = "normal")
  /\ [](pc # "done" => outcome = "none")
  /\ [](pc \in ShutdownPcs <=> cause # "none")
  /\ [][(pc = "recv" /\ clock' = clock + SOCK_TIMEOUT) => (pc' = "meta" /\ cause' = "none")]_vars
  /\ [][(pc = "check" /\ payload = None /\ cause' # "interrupt")
          => (pc' = "meta" /\ cause' = "none")]_vars

\* main has re-raised a fault after the finally block
C10_Witness == pc = "done" /\ cause = "fault" /\ outcome = "abnormal" /\ known_names # {}

C12_DecodeReadsSevenWords ==
  pc = "decoded" =>
    /\ Len(data) >= 37
    /\ \A h \in HeaderFills, raw \in RawWords, t \in Trailers :
         data = Buffer(h, raw, t) =>
           payload = [pm25 |-> raw[1],
                      pm10 |-> raw[2],
                      hcho |-> <<raw[3], 100>>,
                      tvoc |-> <<raw[4], 100>>,
                      co2 |-> raw[5],
                      temperature |-> <<raw[6] - 3500, 100>>,
                      humidity |-> <<raw[7], 100>>]

\* equality of two fractions <<numerator, denominator>>
RatEq(a, b) == a[1] * b[2] = b[1] * a[2]

\* the words 10, 20, 150, 250, 800, 3800, 6000 behind a header of 255s and
\* before three more bytes were decoded to 10, 20, 1.5, 2.5, 800, 3.0, 60.0
C12_Witness ==
  /\ pc = "decoded"
  /\ data = Buffer(255, <<10, 20, 150, 250, 800, 3800, 6000>>, <<7, 7, 7>>)
  /\ payload.pm25 = 10 /\ payload.pm10 = 20 /\ payload.co2 = 800
  /\ RatEq(payload.hcho, <<3, 2>>)
  /\ RatEq(payload.tvoc, <<5, 2>>)
  /\ RatEq(payload.temperature, <<3, 1>>)
  /\ RatEq(payload.humidity, <<60, 1>>)

\* C13: a sweep fires no later than its scheduled time plus the receive
\* timeout: when the check of line 201 lets a sweep over a non-empty registry
\* start, the real time is at most next_meta_ts + SOCK_TIMEOUT.
C13_SweepWithinTimeout ==
  (pc = "meta" /\ now >= next_meta_ts /\ known_names # {})
    => clock <= next_meta_ts + SOCK_TIMEOUT

\* C14: an interrupt takes effect only between two packets: the shutdown that
\* follows an interrupt never finds a known name whose discovery was not
\* published or whose timestamp was not recorded.
C14_InterruptBetweenPackets ==
  (pc \in ShutdownPcs /\ cause = "interrupt") =>
    \A n \in known_names : discCount[n] >= 1 /\ last_packet_ts[n] # NoTs

\* C15: every age published by a sweep or by the shutdown sequence is
\* non-negative, also when the clock reading is earlier than the recorded
\* timestamp.
C15_AgeNonNegative ==
  \A n \in Names : retAge[n] # NoAge => retAge[n] >= 0

C17_CadenceFromSweepEnd ==
  (pc = "meta" /\ now >= next_meta_ts /\ known_names # {} /\ sweepEnd # NoTs)
    => clock - sweepEnd >= meta_publish_every_s * TicksPerSec

\* C18: a sweep that runs to its end has published, for every name in the
\* registry at that time, a retained age and a retained online flag: the age
\* is the whole number of seconds between the name's timestamp and `now`, and
\* the flag is ON exactly when the name has a timestamp and that age is at
\* most online_timeout_s.
C18_SweepCoversRegistry ==
  [][(pc = "sweep" /\ pc' = "top") =>
       \A n \in known_names :
         /\ retAge'[n] # NoAge
         /\ retOnline'[n] \in {"ON", "OFF"}
         /\ retOnline'[n] = "ON" <=>
               (last_packet_ts[n] # NoTs /\ retAge'[n] <= online_timeout_s)
         /\ last_packet_ts[n] # NoTs =>
               /\ retAge'[n] * TicksPerSec <= now - last_packet_ts[n]
               /\ now - last_packet_ts[n] < (retAge'[n] + 1) * TicksPerSec]_vars

\* a sweep has just ended that covered two names: one whose packet was handled
\* in the same iteration, published ON, and one past the timeout, published OFF
C18_Witness ==
  /\ pc = "top"
  /\ sweepEnd = clock
  /\ known_names = Names
  /\ last_packet_ts["bedroom"] = now
  /\ retAge["bedroom"] = 0
  /\ retOnline["bedroom"] = "ON"
  /\ retAge[DEFAULT_NAME] > online_timeout_s
  /\ retOnline[DEFAULT_NAME] = "OFF"

Unmapped == Addrs \ DOMAIN addr_to_name

C20_UnmappedShareSession ==
  /\ [](known_names \subseteq {DEFAULT_NAME} /\ statePubs \subseteq {DEFAULT_NAME})
  /\ [](discCount[DEFAULT_NAME] <= 1 /\ \A n \in Names \ {DEFAULT_NAME} : discCount[n] = 0)
  /\ [](handledFrom # {} => discCount[DEFAULT_NAME] = 1)
  /\ [](\A n \in Names \ {DEFAULT_NAME} : last_packet_ts[n] = NoTs)
  /\ [][\A a \in Unmapped : (pc = "recv" /\ addr' = a) => name' = DEFAULT_NAME]_vars
  /\ [][\A a \in Unmapped : (pc = "state" /\ addr = a /\ pc' = "ts")
                               => statePubs' = {DEFAULT_NAME}]_vars
  /\ [][\A a \in Unmapped : (pc = "ts" /\ addr = a /\ pc' = "meta")
                               => last_packet_ts'[DEFAULT_NAME] = now]_vars

\* valid packets from both unmapped addresses were handled, the later one
\* refreshed the timestamp the earlier one had set, and one discovery was
\* published
C20_Witness ==
  /\ handledFrom = {"10.0.0.2", "10.0.0.3"}
  /\ known_names = {DEFAULT_NAME}
  /\ discCount[DEFAULT_NAME] = 1
  /\ statePubs = {DEFAULT_NAME}
  /\ pc = "meta"
  /\ last_packet_ts[DEFAULT_NAME] = now
  /\ now > StartClock

====
